---- MODULE Spec2Model ----
(***************************************************************************)
(* A model of the go-redis Python client (src/python-client/goredis):      *)
(* the RESP encoder and decoder of GoRedisClient, the global client        *)
(* handle of Connect/Close/get_client, and the command wrappers that call  *)
(* send_command.  Bytes are the integers 0..255, text is a sequence of     *)
(* Unicode code points.                                                    *)
(***************************************************************************)
EXTENDS Integers, Sequences, FiniteSets, TLC

(***************************************************************************)
(* Bytes that the code names in literals.                                  *)
(***************************************************************************)
CR == 13
LF == 10
PLUS == 43
MINUS == 45
COLON == 58
DOLLAR == 36
STAR == 42
ZERO == 48
SPACE == 32

CRLF == <<CR, LF>>

\* Bounds of the model.
MaxArgs == 2
MaxClients == 2
MaxCalls == 2
MaxTxnCalls == 4
MaxPush == 1
MaxConcCalls == 4
MaxFreeCalls == 2
MaxPairs == 2

(***************************************************************************)
(* Python values.  Every value is a record of one shape so that values of  *)
(* different types can be compared: k is the type, s the text of a str     *)
(* (code points), n the number of an int, e the elements of a list.        *)
(***************************************************************************)
PyNone == [k |-> "none", s |-> <<>>, n |-> 0, e |-> <<>>]
PyText(cps) == [k |-> "str", s |-> cps, n |-> 0, e |-> <<>>]
PyInt(i) == [k |-> "int", s |-> <<>>, n |-> i, e |-> <<>>]
PyList(items) == [k |-> "list", s |-> <<>>, n |-> 0, e |-> items]

(***************************************************************************)
(* Text and number conversions of the Python runtime used by the client.   *)
(***************************************************************************)
RECURSIVE NatDigits(_)
\* The decimal digits of a natural number, as code points.
NatDigits(i) ==
    IF i < 10 THEN <<ZERO + i>>
    ELSE NatDigits(i \div 10) \o <<ZERO + (i % 10)>>

\* f"{n}" of an int: a minus sign and the decimal digits.
FormatInt(i) == IF i < 0 THEN <<MINUS>> \o NatDigits(0 - i) ELSE NatDigits(i)

\* str(arg) of client.py line 40: a str is itself, an int is its decimal text.
PyStr(arg) ==
    CASE arg.k = "str" -> arg.s
      [] arg.k = "int" -> FormatInt(arg.n)
      [] arg.k = "none" -> <<78, 111, 110, 101>>
      [] OTHER -> <<>>

\* The UTF-8 bytes of one code point.
Utf8Char(cp) ==
    IF cp < 128 THEN <<cp>>
    ELSE IF cp < 2048 THEN <<192 + (cp \div 64), 128 + (cp % 64)>>
    ELSE IF cp < 65536
         THEN <<224 + (cp \div 4096), 128 + ((cp \div 64) % 64), 128 + (cp % 64)>>
    ELSE <<240 + (cp \div 262144), 128 + ((cp \div 4096) % 64),
           128 + ((cp \div 64) % 64), 128 + (cp % 64)>>

RECURSIVE Utf8Encode(_)
\* text.encode('utf-8')
Utf8Encode(cps) ==
    IF cps = <<>> THEN <<>> ELSE Utf8Char(Head(cps)) \o Utf8Encode(Tail(cps))

IsCont(b) == b >= 128 /\ b < 192

DropN(s, k) == SubSeq(s, k + 1, Len(s))
TakeN(s, k) == SubSeq(s, 1, k)

RECURSIVE Utf8Decode(_)
\* data.decode('utf-8'): [ok, s]; ok is FALSE where Python raises
\* UnicodeDecodeError (a stray continuation byte, a cut or overlong sequence).
Utf8Decode(bs) ==
    IF bs = <<>> THEN [ok |-> TRUE, s |-> <<>>]
    ELSE LET b == Head(bs)
             w == IF b < 128 THEN 1
                  ELSE IF b >= 194 /\ b < 224 THEN 2
                  ELSE IF b >= 224 /\ b < 240 THEN 3
                  ELSE IF b >= 240 /\ b < 245 THEN 4
                  ELSE 0
         IN IF w = 0 \/ Len(bs) < w \/ \E i \in 2..w : ~IsCont(bs[i])
            THEN [ok |-> FALSE, s |-> <<>>]
            ELSE LET cp == CASE w = 1 -> b
                             [] w = 2 -> (b - 192) * 64 + (bs[2] - 128)
                             [] w = 3 -> (b - 224) * 4096 + (bs[2] - 128) * 64
                                         + (bs[3] - 128)
                             [] OTHER -> (b - 240) * 262144 + (bs[2] - 128) * 4096
                                         + (bs[3] - 128) * 64 + (bs[4] - 128)
                     bad == \/ (w = 3 /\ cp < 2048)
                            \/ (w = 3 /\ cp >= 55296 /\ cp < 57344)
                            \/ (w = 4 /\ (cp < 65536 \/ cp > 1114111))
                     r == Utf8Decode(DropN(bs, w))
                 IN IF bad \/ ~r.ok THEN [ok |-> FALSE, s |-> <<>>]
                    ELSE [ok |-> TRUE, s |-> <<cp>> \o r.s]

IsDigit(b) == b >= ZERO /\ b < ZERO + 10
IsSpace(b) == b \in {SPACE, 9, LF, 11, 12, CR}

RECURSIVE LStripSpace(_)
LStripSpace(bs) ==
    IF bs # <<>> /\ IsSpace(Head(bs)) THEN LStripSpace(Tail(bs)) ELSE bs

RECURSIVE RStripSpace(_)
RStripSpace(bs) ==
    IF bs # <<>> /\ IsSpace(bs[Len(bs)]) THEN RStripSpace(TakeN(bs, Len(bs) - 1))
    ELSE bs

RECURSIVE DigitsValue(_)
DigitsValue(ds) ==
    IF ds = <<>> THEN 0
    ELSE DigitsValue(TakeN(ds, Len(ds) - 1)) * 10 + (ds[Len(ds)] - ZERO)

\* int(payload) of a bytes object: surrounding whitespace is ignored, one
\* sign is allowed, then decimal digits; anything else raises ValueError.
ParseInt(bs) ==
    LET t == RStripSpace(LStripSpace(bs))
        signed == t # <<>> /\ Head(t) \in {PLUS, MINUS}
        ds == IF signed THEN Tail(t) ELSE t
    IN IF ds = <<>> \/ \E i \in 1..Len(ds) : ~IsDigit(ds[i])
       THEN [ok |-> FALSE, n |-> 0]
       ELSE [ok |-> TRUE,
             n |-> IF signed /\ Head(t) = MINUS THEN 0 - DigitsValue(ds)
                   ELSE DigitsValue(ds)]

(***************************************************************************)
(* Integers of any size.  A Python int has no fixed width; one that may    *)
(* exceed the numbers of the model is held as a sign and the limbs of its  *)
(* magnitude in base 10^8, most significant first, zero having no limb.    *)
(***************************************************************************)
LimbDigits == 8
LimbBase == 100000000

Big(neg, limbs) == [neg |-> neg, limbs |-> limbs]

RECURSIVE BigMulAddNoCarry(_, _)
\* A mutant of BigMulAdd: the magnitude never grows by a limb, as in an
\* integer of fixed width.
BigMulAddNoCarry(limbs, carry) ==
    IF limbs = <<>> THEN <<>>
    ELSE LET v == limbs[Len(limbs)] * 10 + carry
         IN BigMulAddNoCarry(TakeN(limbs, Len(limbs) - 1), v \div LimbBase)
                \o <<v % LimbBase>>

RECURSIVE BigMulAdd(_, _)
\* limbs * 10 + carry, one step of reading a decimal digit.
BigMulAdd(limbs, carry) ==
    IF limbs = <<>> THEN (IF carry = 0 THEN <<>> ELSE <<carry>>)
    ELSE LET v == limbs[Len(limbs)] * 10 + carry
         IN BigMulAdd(TakeN(limbs, Len(limbs) - 1), v \div LimbBase)
                \o <<v % LimbBase>>

RECURSIVE BigDigits(_)
\* The magnitude the decimal digits ds stand for.
BigDigits(ds) ==
    IF ds = <<>> THEN <<>>
    ELSE BigMulAdd(BigDigits(TakeN(ds, Len(ds) - 1)), ds[Len(ds)] - ZERO)

\* int(payload) of a bytes object, as ParseInt, for an integer of any size.
ParseBig(bs) ==
    LET t == RStripSpace(LStripSpace(bs))
        signed == t # <<>> /\ Head(t) \in {PLUS, MINUS}
        ds == IF signed THEN Tail(t) ELSE t
        mag == BigDigits(ds)
    IN IF ds = <<>> \/ \E i \in 1..Len(ds) : ~IsDigit(ds[i])
       THEN [ok |-> FALSE, n |-> Big(FALSE, <<>>)]
       ELSE [ok |-> TRUE,
             n |-> Big(signed /\ Head(t) = MINUS /\ mag # <<>>, mag)]

(***************************************************************************)
(* GoRedisClient.send_command, lines 38-42: the encoded request.           *)
(***************************************************************************)
\* len(b_arg) with the bytes of the argument counted, as line 41 does.
ArgLenChars(arg) == Len(PyStr(arg))
ArgLen(arg) == Len(Utf8Encode(PyStr(arg)))

\* Lines 40-42 for one argument.
EncodeArg(arg) ==
    Utf8Encode(<<DOLLAR>> \o FormatInt(ArgLen(arg)) \o CRLF)
        \o Utf8Encode(PyStr(arg)) \o CRLF

RECURSIVE EncodeArgs(_)
EncodeArgs(args) ==
    IF args = <<>> THEN <<>> ELSE EncodeArg(Head(args)) \o EncodeArgs(Tail(args))

\* The bytes handed to sock.sendall.
Encode(args) ==
    Utf8Encode(<<STAR>> \o FormatInt(Len(args)) \o CRLF) \o EncodeArgs(args)

(***************************************************************************)
(* GoRedisClient._read_response, lines 47-74, over the buffered reader     *)
(* self.file.  buf holds the bytes the transport has delivered and that    *)
(* have not been read, eof says that the peer has closed the stream.  A    *)
(* blocking read that cannot complete yet gives st = "block".              *)
(***************************************************************************)
Ret(v, rest) ==
    [st |-> "ret", v |-> v, exc |-> "", pre |-> "", txt |-> <<>>, rest |-> rest]
Raise(exc, pre, txt, rest) ==
    [st |-> "raise", v |-> PyNone, exc |-> exc, pre |-> pre, txt |-> txt,
     rest |-> rest]
Block(buf) ==
    [st |-> "block", v |-> PyNone, exc |-> "", pre |-> "", txt |-> <<>>,
     rest |-> buf]

\* The index of the first LF of buf, 0 when it holds none.
FirstLF(buf) ==
    IF \E i \in 1..Len(buf) : buf[i] = LF
    THEN CHOOSE i \in 1..Len(buf) :
             buf[i] = LF /\ \A j \in 1..(i - 1) : buf[j] # LF
    ELSE 0

\* self.file.readline(), line 53: up to and including the first LF; at the
\* end of the stream what is left, which may be empty.
ReadLine(buf, eof) ==
    LET i == FirstLF(buf)
    IN IF i > 0 THEN [st |-> "ok", line |-> TakeN(buf, i), rest |-> DropN(buf, i)]
       ELSE IF eof THEN [st |-> "ok", line |-> buf, rest |-> <<>>]
       ELSE [st |-> "block", line |-> <<>>, rest |-> buf]

\* self.file.read(n) for n >= 0, lines 67-68: n bytes, fewer at the end of the
\* stream.
ReadN(buf, eof, n) ==
    IF Len(buf) >= n
    THEN [st |-> "ok", data |-> TakeN(buf, n), rest |-> DropN(buf, n)]
    ELSE IF eof THEN [st |-> "ok", data |-> buf, rest |-> <<>>]
    ELSE [st |-> "block", data |-> <<>>, rest |-> buf]

RECURSIVE RStripCRLF(_)
\* line.rstrip(b'\r\n'), line 57: every trailing CR and LF byte is removed.
RStripCRLF(line) ==
    IF line # <<>> /\ line[Len(line)] \in {CR, LF}
    THEN RStripCRLF(TakeN(line, Len(line) - 1))
    ELSE line

\* A mutant of ReadBulk: the payload is read as a line, not by its length.
ReadBulkByLine(buf, eof, length) ==
    LET rl == ReadLine(buf, eof)
        d == Utf8Decode(RStripCRLF(rl.line))
    IN IF rl.st = "block" THEN Block(buf)
       ELSE IF ~d.ok THEN Raise("UnicodeDecodeError", "", <<>>, rl.rest)
       ELSE Ret(PyText(d.s), rl.rest)

\* Lines 67-69: the payload of a bulk string of the given length, then the
\* two bytes of its terminator, which are not looked at.
ReadBulk(buf, eof, length) ==
    LET r1 == ReadN(buf, eof, length)
        r2 == ReadN(r1.rest, eof, 2)
        d == Utf8Decode(r1.data)
    IN IF r1.st = "block" \/ r2.st = "block" THEN Block(buf)
       ELSE IF ~d.ok THEN Raise("UnicodeDecodeError", "", <<>>, r2.rest)
       ELSE Ret(PyText(d.s), r2.rest)

\* A mutant of BulkFrame: the terminator is read after a nil bulk header too.
BulkFrameNilTerm(payload, rest, eof) ==
    LET len == ParseInt(payload)
        r2 == ReadN(rest, eof, 2)
    IN IF ~len.ok THEN Raise("ValueError", "invalid literal for int()", payload, rest)
       ELSE IF len.n = -1
            THEN IF r2.st = "block" THEN Block(rest) ELSE Ret(PyNone, r2.rest)
       ELSE IF len.n < 0
            THEN Raise("ValueError", "read length must be non-negative or -1",
                       <<>>, rest)
       ELSE ReadBulk(rest, eof, len.n)

\* Lines 65-66: a bulk header.
BulkFrame(payload, rest, eof) ==
    LET len == ParseInt(payload)
    IN IF ~len.ok THEN Raise("ValueError", "invalid literal for int()", payload, rest)
       ELSE IF len.n = -1 THEN Ret(PyNone, rest)
       ELSE IF len.n < 0
            THEN Raise("ValueError", "read length must be non-negative or -1",
                       <<>>, rest)
       ELSE ReadBulk(rest, eof, len.n)

RECURSIVE ReadResponse(_, _), ReadItems(_, _, _, _)

\* Line 73: [self._read_response() for _ in range(count)].  An exception of
\* an element leaves the comprehension at once.
ReadItems(buf, eof, count, acc) ==
    IF count <= 0 THEN Ret(PyList(acc), buf)
    ELSE LET r == ReadResponse(buf, eof)
         IN IF r.st = "ret"
            THEN ReadItems(r.rest, eof, count - 1, Append(acc, r.v))
            ELSE r

\* Lines 70-73: an array header.
ArrayFrame(payload, rest, eof) ==
    LET count == ParseInt(payload)
    IN IF ~count.ok
       THEN Raise("ValueError", "invalid literal for int()", payload, rest)
       ELSE IF count.n = -1 THEN Ret(PyNone, rest)
       ELSE ReadItems(rest, eof, count.n, <<>>)

ReadResponse(buf, eof) ==
    LET rl == ReadLine(buf, eof)
        line == RStripCRLF(rl.line)
        prefix == IF line = <<>> THEN <<>> ELSE <<Head(line)>>
        payload == DropN(line, 1)
        text == Utf8Decode(payload)
        num == ParseInt(payload)
        r == CASE rl.st = "block" -> Block(buf)
               [] rl.st = "ok" /\ rl.line = <<>> ->
                      Raise("EOFError", "Connection closed by server", <<>>, rl.rest)
               [] rl.st = "ok" /\ rl.line # <<>> /\ prefix = <<PLUS>> ->
                      IF text.ok THEN Ret(PyText(text.s), rl.rest)
                      ELSE Raise("UnicodeDecodeError", "", <<>>, rl.rest)
               [] rl.st = "ok" /\ rl.line # <<>> /\ prefix = <<MINUS>> ->
                      IF text.ok
                      THEN Raise("Exception", "Server Error: ", text.s, rl.rest)
                      ELSE Raise("UnicodeDecodeError", "", <<>>, rl.rest)
               [] rl.st = "ok" /\ rl.line # <<>> /\ prefix = <<COLON>> ->
                      IF num.ok THEN Ret(PyInt(num.n), rl.rest)
                      ELSE Raise("ValueError", "invalid literal for int()",
                                 payload, rl.rest)
               [] rl.st = "ok" /\ rl.line # <<>> /\ prefix = <<DOLLAR>> ->
                      BulkFrame(payload, rl.rest, eof)
               [] rl.st = "ok" /\ rl.line # <<>> /\ prefix = <<STAR>> ->
                      ArrayFrame(payload, rl.rest, eof)
               [] OTHER ->
                      Raise("Exception", "Unknown RESP type received: ", prefix,
                            rl.rest)
    IN \* A read that blocks inside an array has consumed nothing that the
       \* caller sees: the call is still inside _read_response.
       IF r.st = "block" THEN Block(buf) ELSE r

RECURSIVE Want(_, _)
\* The blocking read _read_response is in when it has consumed exactly the
\* bytes of buf and count frames were to be read from them: readline
\* (line 53), read(length) (line 67), read(2) (line 68), or none when the
\* call is over.  The elements of an array (line 73) are frames to be read
\* before the frames that follow the array.
Want(buf, count) ==
    LET rl == ReadLine(buf, FALSE)
        line == RStripCRLF(rl.line)
        prefix == IF line = <<>> THEN <<>> ELSE <<Head(line)>>
        num == ParseInt(DropN(line, 1))
    IN CASE count <= 0 -> [k |-> "none", n |-> 0]
         [] count > 0 /\ rl.st = "block" -> [k |-> "line", n |-> 0]
         [] count > 0 /\ rl.st = "ok" /\ prefix = <<DOLLAR>> /\ num.ok
            /\ num.n >= 0 ->
                IF ReadN(rl.rest, FALSE, num.n).st = "block"
                THEN [k |-> "bytes", n |-> num.n]
                ELSE IF ReadN(DropN(rl.rest, num.n), FALSE, 2).st = "block"
                     THEN [k |-> "bytes", n |-> 2]
                     ELSE Want(DropN(rl.rest, num.n + 2), count - 1)
         [] count > 0 /\ rl.st = "ok" /\ prefix = <<STAR>> /\ num.ok
            /\ num.n > 0 ->
                Want(rl.rest, count - 1 + num.n)
         [] count > 0 /\ rl.st = "ok"
            /\ (\/ prefix \in {<<PLUS>>, <<COLON>>}
                \/ (prefix \in {<<DOLLAR>>, <<STAR>>} /\ num.ok /\ num.n < 0)
                \/ (prefix = <<STAR>> /\ num.ok /\ num.n = 0)) ->
                Want(rl.rest, count - 1)
         [] OTHER -> [k |-> "none", n |-> 0]

(***************************************************************************)
(* The server's side of the protocol (RESP, spec section 4.1): how a       *)
(* compliant server reads a request and writes a frame.                    *)
(***************************************************************************)
\* The index of the first CR LF pair of bs, 0 when it holds none.
FirstCRLF(bs) ==
    IF \E i \in 1..(Len(bs) - 1) : bs[i] = CR /\ bs[i + 1] = LF
    THEN CHOOSE i \in 1..(Len(bs) - 1) :
             /\ bs[i] = CR /\ bs[i + 1] = LF
             /\ \A j \in 1..(i - 1) : ~(bs[j] = CR /\ bs[j + 1] = LF)
    ELSE 0

\* A header line <tag><decimal>CRLF at the head of bs.
SrvHeader(bs, tag) ==
    LET i == FirstCRLF(bs)
        ds == SubSeq(bs, 2, i - 1)
    IN IF i < 3 \/ bs[1] # tag \/ \E j \in 1..Len(ds) : ~IsDigit(ds[j])
       THEN [ok |-> FALSE, n |-> 0, rest |-> <<>>]
       ELSE [ok |-> TRUE, n |-> DigitsValue(ds), rest |-> DropN(bs, i + 1)]

RECURSIVE SrvBulks(_, _, _)
\* k bulk strings, each $<len>CRLF, len bytes, CRLF; the request must end
\* with the last of them.
SrvBulks(bs, k, acc) ==
    IF k = 0 THEN [ok |-> bs = <<>>, args |-> acc]
    ELSE LET h == SrvHeader(bs, DOLLAR)
         IN IF ~h.ok \/ Len(h.rest) < h.n + 2
               \/ SubSeq(h.rest, h.n + 1, h.n + 2) # CRLF
            THEN [ok |-> FALSE, args |-> acc]
            ELSE SrvBulks(DropN(h.rest, h.n + 2), k - 1,
                          Append(acc, TakeN(h.rest, h.n)))

\* A request as the server reads it: *<N>CRLF and N bulk strings.
SrvParse(bs) ==
    LET h == SrvHeader(bs, STAR)
    IN IF ~h.ok THEN [ok |-> FALSE, args |-> <<>>]
       ELSE SrvBulks(h.rest, h.n, <<>>)

(***************************************************************************)
(* State.                                                                  *)
(***************************************************************************)
VARIABLES
    global_client,  \* client.py _global_client: 0 is None, else an object
    objs,           \* the GoRedisClient objects created so far
    held,           \* the objects the caller keeps a reference to
    net,            \* per object, the transport: bytes in flight either way
    srv,            \* per object, the server's state for that connection
    pc,             \* "idle", or "await": a call is inside _read_response
    cur,            \* the call in progress
    results,        \* the finished calls, in order, with their outcome
    profile,        \* which replies the server of this run may give
    cArgs,          \* codec: the arguments of one request
    cBytes,         \* codec: the bytes send_command builds for them
    cRes,           \* codec: what _read_response makes of those bytes
    cpc             \* codec: "args", "encoded", "decoded"

vars == <<global_client, objs, held, net, srv, pc, cur, results, profile,
          cArgs, cBytes, cRes, cpc>>
connVars == <<global_client, objs, held, net, srv, pc, cur, results, profile>>
codecVars == <<cArgs, cBytes, cRes, cpc>>

(***************************************************************************)
(* The codec on its own: the arguments of a request, the bytes             *)
(* send_command builds, and _read_response applied to those bytes.         *)
(***************************************************************************)
\* Text arguments: empty, ASCII, a 3-byte and a 2-byte character, CR LF
\* inside, and one whose encoding is 10 bytes long.
ArgTexts ==
    {<<>>, <<97>>, <<8364>>, <<CR, LF>>, <<233, LF, 97>>,
     <<8364, 8364, 8364, 97>>}
ArgInts == {0, -7}
ArgValues == {PyText(t) : t \in ArgTexts} \cup {PyInt(i) : i \in ArgInts}
ArgSeqs == UNION {[1..n -> ArgValues] : n \in 0..MaxArgs}

NoOutcome == Block(<<>>)

ConnIdle ==
    /\ global_client = 0
    /\ objs = <<>>
    /\ held = {}
    /\ net = <<>>
    /\ srv = <<>>
    /\ pc = "idle"
    /\ cur = <<>>
    /\ results = <<>>
    /\ profile = "none"

CodecIdle ==
    /\ cArgs = <<>>
    /\ cBytes = <<>>
    /\ cRes = NoOutcome
    /\ cpc = "off"

CodecInit ==
    /\ ConnIdle
    /\ cArgs \in ArgSeqs
    /\ cBytes = <<>>
    /\ cRes = NoOutcome
    /\ cpc = "args"

\* send_command lines 38-42.
CodecEncode ==
    /\ cpc = "args"
    /\ cBytes' = Encode(cArgs)
    /\ cpc' = "encoded"
    /\ UNCHANGED <<cArgs, cRes>>
    /\ UNCHANGED connVars

\* _read_response on the bytes of the request, the stream ending after them.
CodecDecode ==
    /\ cpc = "encoded"
    /\ cRes' = ReadResponse(cBytes, TRUE)
    /\ cpc' = "decoded"
    /\ UNCHANGED <<cArgs, cBytes>>
    /\ UNCHANGED connVars

CodecNext == CodecEncode \/ CodecDecode

SpecCodec == CodecInit /\ [][CodecNext]_vars

\* C2: decoding the bytes send_command encodes for a sequence of text
\* arguments gives a list of the same length whose elements are the
\* arguments, in order, byte for byte, and leaves no byte unread.
RoundTrip ==
    (cpc = "decoded" /\ \A i \in 1..Len(cArgs) : cArgs[i].k = "str")
    => /\ cRes.st = "ret"
       /\ cRes.v.k = "list"
       /\ Len(cRes.v.e) = Len(cArgs)
       /\ \A i \in 1..Len(cArgs) :
              /\ cRes.v.e[i].k = "str"
              /\ cRes.v.e[i].s = cArgs[i].s
              /\ Utf8Encode(cRes.v.e[i].s) = Utf8Encode(cArgs[i].s)
       /\ cRes.rest = <<>>

RoundTripWitness ==
    /\ cpc = "decoded"
    /\ cArgs = <<PyText(<<CR, LF>>), PyText(<<8364>>)>>
    /\ cRes.st = "ret"
    /\ cRes.v.e = cArgs

\* C3: the array header of the encoded request carries the argument count
\* and every bulk header the number of bytes of its argument after UTF-8
\* encoding, so that a reader that follows the headers ends exactly at the
\* end of the request with every argument's bytes in hand.
LengthPrefix ==
    cpc \in {"encoded", "decoded"}
    => LET p == SrvParse(cBytes)
       IN /\ p.ok
          /\ Len(p.args) = Len(cArgs)
          /\ \A i \in 1..Len(cArgs) :
                 /\ p.args[i] = Utf8Encode(PyStr(cArgs[i]))
                 /\ cArgs[i] = PyText(<<8364>>) => Len(p.args[i]) = 3

LengthPrefixWitness ==
    /\ cpc = "encoded"
    /\ Len(cArgs) = 2
    /\ cArgs[2] = PyText(<<8364>>)
    /\ SubSeq(cBytes, Len(cBytes) - 8, Len(cBytes) - 5) = <<DOLLAR, ZERO + 3, CR, LF>>

(***************************************************************************)
(* The command wrappers on their own: the arguments a wrapper is called    *)
(* with, and the request it hands to send_command.  cur holds the call,    *)
(* cArgs the elements of the request, cBytes their encoding.               *)
(***************************************************************************)
PING == <<80, 73, 78, 71>>
INFO == <<73, 78, 70, 79>>
USERS == <<85, 83, 69, 82, 83>>
COMMANDS == <<67, 79, 77, 77, 65, 78, 68, 83>>
GEODIST == <<71, 69, 79, 68, 73, 83, 84>>
ZGET == <<90, 71, 69, 84>>
SIZE == <<83, 73, 90, 69>>
SRANDMEMBER == <<83, 82, 65, 78, 68, 77, 69, 77, 66, 69, 82>>
PUBLISH == <<80, 85, 66, 76, 73, 83, 72>>
MSET == <<77, 83, 69, 84>>
HMSET == <<72, 77, 83, 69, 84>>

\* The truth value Python gives a value in `if value:`.
PyTruthy(v) ==
    CASE v.k = "none" -> FALSE
      [] v.k = "str" -> v.s # <<>>
      [] v.k = "int" -> v.n # 0
      [] OTHER -> v.e # <<>>

\* What a caller may pass for an optional argument; None is the default,
\* the value of an argument that was not supplied.
OptValues == ArgValues \cup {PyNone}

\* The names of keyword arguments: f, g, and key, which is also the name of
\* the first parameter of HMSet.
FieldF == <<102>>
FieldG == <<103>>
FieldKey == <<107, 101, 121>>
FieldNames == {FieldF, FieldG, FieldKey}
FieldValues == {PyText(<<97>>), PyInt(0)}

\* The keyword mappings of up to MaxPairs entries: distinct names, in the
\* order the caller wrote them.
Mappings ==
    UNION {{mp \in [1..n -> FieldNames \X FieldValues] :
               \A i, j \in 1..n : i # j => mp[i][1] # mp[j][1]} : n \in 0..MaxPairs}

\* A wrapper has been called and has handed the request args to
\* send_command.
Called(op, fixed, opt, mapping, args) ==
    /\ cpc = "off"
    /\ cur' = [op |-> op, fixed |-> fixed, opt |-> opt, mapping |-> mapping]
    /\ cArgs' = args
    /\ cBytes' = Encode(args)
    /\ cpc' = "sent"
    /\ UNCHANGED <<global_client, objs, held, net, srv, pc, results, profile, cRes>>

\* The call of a wrapper raised before any request was made.
CallRaised(op, fixed, opt, mapping, exc, txt) ==
    /\ cpc = "off"
    /\ cur' = [op |-> op, fixed |-> fixed, opt |-> opt, mapping |-> mapping]
    /\ cRes' = Raise(exc, txt, <<>>, <<>>)
    /\ cpc' = "raised"
    /\ UNCHANGED <<global_client, objs, held, net, srv, pc, results, profile,
                   cArgs, cBytes>>

\* A trailing argument appended under `if value:`.
IfTruthy(v) == IF PyTruthy(v) THEN <<v>> ELSE <<>>
\* A trailing argument appended under `if value is not None:`.
IfNotNone(v) == IF v # PyNone THEN <<v>> ELSE <<>>

\* server.py Ping, lines 22-26.
Ping(message) ==
    Called("Ping", <<>>, message, <<>>, <<PyText(PING)>> \o IfTruthy(message))
\* server.py Info, lines 36-40.
Info(key) ==
    Called("Info", <<>>, key, <<>>, <<PyText(INFO)>> \o IfTruthy(key))
\* server.py Size, lines 58-62.
Size(db_index) ==
    Called("Size", <<>>, db_index, <<>>, <<PyText(SIZE)>> \o IfNotNone(db_index))
\* server.py Users, lines 72-76.
Users(username) ==
    Called("Users", <<>>, username, <<>>, <<PyText(USERS)>> \o IfTruthy(username))
\* server.py Commands, lines 98-102.
Commands(pattern) ==
    Called("Commands", <<>>, pattern, <<>>,
           <<PyText(COMMANDS)>> \o IfTruthy(pattern))
\* geo.py GeoDist, lines 11-16.
GeoDist(key, member1, member2, unit) ==
    Called("GeoDist", <<key, member1, member2>>, unit, <<>>,
           <<PyText(GEODIST), key, member1, member2>> \o IfTruthy(unit))
\* zsets.py ZGet, lines 31-35.
ZGet(key, member) ==
    Called("ZGet", <<key>>, member, <<>>, <<PyText(ZGET), key>> \o IfTruthy(member))
\* sets.py SRandMember, lines 35-39.
SRandMember(key, count) ==
    Called("SRandMember", <<key>>, count, <<>>,
           <<PyText(SRANDMEMBER), key>> \o IfNotNone(count))
\* pubsub.py Publish, lines 3-5.
Publish(channel, message) ==
    Called("Publish", <<channel, message>>, PyNone, <<>>,
           <<PyText(PUBLISH), channel, message>>)

RECURSIVE Flatten(_)
\* strings.py lines 34-35, hashes.py lines 47-48:
\* for k, v in mapping.items(): args.extend([k, v]).
Flatten(mapping) ==
    IF mapping = <<>> THEN <<>>
    ELSE <<PyText(Head(mapping)[1]), Head(mapping)[2]>> \o Flatten(Tail(mapping))

\* strings.py MSet, lines 31-36.
MSet(mapping) ==
    Called("MSet", <<>>, PyNone, mapping, <<PyText(MSET)>> \o Flatten(mapping))

\* hashes.py HMSet, lines 42-49.  HMSet(key, **mapping) binds the keyword
\* named key to the parameter key as well, which the call refuses.
HMSet(key, mapping) ==
    IF \E i \in 1..Len(mapping) : mapping[i][1] = FieldKey
    THEN CallRaised("HMSet", <<key>>, PyNone, mapping, "TypeError",
                    "HMSet() got multiple values for argument 'key'")
    ELSE Called("HMSet", <<key>>, PyNone, mapping,
                <<PyText(HMSET), key>> \o Flatten(mapping))

InitWrap == ConnIdle /\ CodecIdle

NextWrap ==
    \/ \E v \in OptValues : Ping(v)
    \/ \E v \in OptValues : Info(v)
    \/ \E v \in OptValues : Size(v)
    \/ \E v \in OptValues : Users(v)
    \/ \E v \in OptValues : Commands(v)
    \/ \E v \in OptValues :
           GeoDist(PyText(<<107>>), PyText(<<97>>), PyText(<<98>>), v)
    \/ \E v \in OptValues : ZGet(PyText(<<107>>), v)
    \/ \E v \in OptValues : SRandMember(PyText(<<107>>), v)
    \/ \E v \in ArgValues : Publish(PyText(<<99>>), v)
    \/ \E mp \in Mappings : MSet(mp)
    \/ \E mp \in Mappings : HMSet(PyText(<<104>>), mp)

SpecWrap == InitWrap /\ [][NextWrap]_vars

\* The command name a wrapper is to send.
CommandName(op) ==
    CASE op = "Ping" -> PING [] op = "Info" -> INFO [] op = "Size" -> SIZE
      [] op = "Users" -> USERS [] op = "Commands" -> COMMANDS
      [] op = "GeoDist" -> GEODIST [] op = "ZGet" -> ZGET
      [] op = "SRandMember" -> SRANDMEMBER [] op = "Publish" -> PUBLISH
      [] op = "MSet" -> MSET [] OTHER -> HMSET

\* The wrappers without keyword arguments.
PlainWrappers ==
    {"Ping", "Info", "Size", "Users", "Commands", "GeoDist", "ZGet",
     "SRandMember", "Publish"}

\* The request the caller means: the name, the arguments in the caller's
\* order, and the optional argument when one was supplied.
Expected(call) ==
    <<PyText(CommandName(call.op))>> \o call.fixed
    \o (IF call.opt # PyNone THEN <<call.opt>> ELSE <<>>)

\* C16: a wrapper sends the command name, then the arguments in the
\* caller's order, and the optional trailing argument exactly when the
\* caller supplied one, whatever its value.
WrapperMapping ==
    (cpc # "off" /\ cur.op \in PlainWrappers)
    => cpc = "sent" /\ cArgs = Expected(cur)

\* C16 for an optional argument that was not supplied, is a non-empty text
\* or a non-zero integer, and for the wrappers that test `is not None`.
WrapperMappingTruthy ==
    (/\ cpc # "off" /\ cur.op \in PlainWrappers
     /\ \/ cur.opt = PyNone
        \/ PyTruthy(cur.opt)
        \/ cur.op \in {"Size", "SRandMember"})
    => cpc = "sent" /\ cArgs = Expected(cur)

\* C17: MSet and HMSet send the name, for HMSet the hash key, then each
\* name of the mapping followed by its own value, in the order of the
\* mapping: 1 + 2n and 2 + 2n elements for n pairs.
KeywordFlattening ==
    (cpc # "off" /\ cur.op \in {"MSet", "HMSet"})
    => LET n == Len(cur.mapping)
           b == 1 + Len(cur.fixed)
       IN /\ cpc = "sent"
          /\ Len(cArgs) = b + 2 * n
          /\ cArgs[1] = PyText(CommandName(cur.op))
          /\ \A i \in 1..Len(cur.fixed) : cArgs[1 + i] = cur.fixed[i]
          /\ \A i \in 1..n :
                 /\ cArgs[b + 2 * i - 1] = PyText(cur.mapping[i][1])
                 /\ cArgs[b + 2 * i] = cur.mapping[i][2]

\* C17 for MSet, and for HMSet when no keyword is named key.
KeywordFlatteningUnbound ==
    (/\ cpc # "off" /\ cur.op \in {"MSet", "HMSet"}
     /\ cur.op = "HMSet"
        => \A i \in 1..Len(cur.mapping) : cur.mapping[i][1] # FieldKey)
    => LET n == Len(cur.mapping)
           b == 1 + Len(cur.fixed)
       IN /\ cpc = "sent"
          /\ Len(cArgs) = b + 2 * n
          /\ cArgs[1] = PyText(CommandName(cur.op))
          /\ \A i \in 1..Len(cur.fixed) : cArgs[1 + i] = cur.fixed[i]
          /\ \A i \in 1..n :
                 /\ cArgs[b + 2 * i - 1] = PyText(cur.mapping[i][1])
                 /\ cArgs[b + 2 * i] = cur.mapping[i][2]

(***************************************************************************)
(* Integer frames on their own: the server writes :<n>CRLF for an integer  *)
(* of the 64-bit signed range, and _read_response decodes it.              *)
(***************************************************************************)
\* A limb as the eight digits it contributes below the first limb.
PadLimb(l) ==
    [i \in 1..(LimbDigits - Len(NatDigits(l))) |-> ZERO] \o NatDigits(l)

RECURSIVE PadLimbs(_)
PadLimbs(ls) == IF ls = <<>> THEN <<>> ELSE PadLimb(Head(ls)) \o PadLimbs(Tail(ls))

\* The decimal text the server writes for an integer.
FormatBig(x) ==
    (IF x.neg THEN <<MINUS>> ELSE <<>>)
    \o (IF x.limbs = <<>> THEN <<ZERO>>
        ELSE NatDigits(Head(x.limbs)) \o PadLimbs(Tail(x.limbs)))

\* 2^63 - 1 and 2^63, the largest magnitudes of the 64-bit signed range.
MaxInt64 == <<922, 33720368, 54775807>>
MinInt64 == <<922, 33720368, 54775808>>

\* a <= b for magnitudes of the same number of limbs.
RECURSIVE LimbsLeq(_, _)
LimbsLeq(a, b) ==
    IF a = <<>> THEN TRUE
    ELSE IF Head(a) # Head(b) THEN Head(a) < Head(b)
    ELSE LimbsLeq(Tail(a), Tail(b))

InInt64(x) ==
    \/ Len(x.limbs) < Len(MaxInt64)
    \/ Len(x.limbs) = Len(MaxInt64)
       /\ LimbsLeq(x.limbs, IF x.neg THEN MinInt64 ELSE MaxInt64)

\* The integers the server sends: 0, small ones, the ends of the limbs, of
\* 32 bits and of 64 bits, of either sign.
TopLimbs == {1, 7, 21, 922}
LowLimbs == {0, 7, 1000, 33720368, 47483647, 47483648, 54775807, 54775808, 99999999}
IntInputs ==
    {x \in {Big(neg, ls) :
                neg \in BOOLEAN,
                ls \in {<<>>} \cup {<<a>> : a \in (TopLimbs \cup LowLimbs) \ {0}}
                       \cup {<<t, a>> : t \in TopLimbs, a \in LowLimbs}
                       \cup {<<t, a, b>> : t \in TopLimbs, a \in LowLimbs, b \in LowLimbs}} :
        InInt64(x) /\ ~(x.neg /\ x.limbs = <<>>)}

\* client.py _read_response, lines 53-63, for an integer of any size: the
\* value returned for a frame whose tag is a colon.
ReadInt(buf) ==
    LET rl == ReadLine(buf, FALSE)
        line == RStripCRLF(rl.line)
        prefix == IF line = <<>> THEN <<>> ELSE <<Head(line)>>
        num == ParseBig(DropN(line, 1))
    IN IF rl.st = "ok" /\ prefix = <<COLON>> /\ num.ok
       THEN [st |-> "ret", k |-> "int", n |-> num.n, rest |-> rl.rest]
       ELSE [st |-> "other", k |-> "none", n |-> Big(FALSE, <<>>), rest |-> buf]

\* The server sends the integer x in an Integer frame and the client
\* decodes it.
IntFrame(x) ==
    /\ cpc = "off"
    /\ cur' = x
    /\ cBytes' = <<COLON>> \o FormatBig(x) \o CRLF
    /\ cRes' = ReadInt(<<COLON>> \o FormatBig(x) \o CRLF)
    /\ cpc' = "int"
    /\ UNCHANGED <<global_client, objs, held, net, srv, pc, results, profile, cArgs>>

InitInt == ConnIdle /\ CodecIdle
NextInt == \E x \in IntInputs : IntFrame(x)
SpecInt == InitInt /\ [][NextInt]_vars

\* An integer the numbers of the model can hold, and its value.
IsSmall(x) == Len(x.limbs) <= 1 \/ (Len(x.limbs) = 2 /\ x.limbs[1] < 21)
SmallValue(x) ==
    LET mag == CASE x.limbs = <<>> -> 0
                 [] Len(x.limbs) = 1 -> x.limbs[1]
                 [] OTHER -> x.limbs[1] * LimbBase + x.limbs[2]
    IN IF x.neg THEN 0 - mag ELSE mag

\* C18: an Integer frame :<n>CRLF with n in the 64-bit signed range decodes
\* to the integer n, of the same sign and magnitude, returned as an int and
\* with the frame read whole; where n fits the numbers of the model,
\* _read_response returns that int.
IntegerFraming ==
    cpc = "int"
    => /\ cRes = [st |-> "ret", k |-> "int", n |-> cur, rest |-> <<>>]
       /\ IsSmall(cur)
          => ReadResponse(cBytes, FALSE) = Ret(PyInt(SmallValue(cur)), <<>>)

\* The frame :-9223372036854775808 has been decoded to -2^63.
IntegerFramingWitness ==
    /\ cpc = "int"
    /\ cur = Big(TRUE, MinInt64)
    /\ cBytes = <<COLON, MINUS>> \o [i \in 1..19 |->
                    ZERO + <<9, 2, 2, 3, 3, 7, 2, 0, 3, 6, 8, 5, 4, 7, 7, 5, 8, 0, 8>>[i]]
                 \o CRLF
    /\ cRes.st = "ret" /\ cRes.k = "int" /\ cRes.n = Big(TRUE, MinInt64)

(***************************************************************************)
(* Frames as the server means them, and their bytes on the wire.  t is the *)
(* type; "raw" is a sequence of bytes that is no frame at all.             *)
(***************************************************************************)
Frame(t, s, n, e) == [t |-> t, s |-> s, n |-> n, e |-> e]
FSimple(s) == Frame("simple", s, 0, <<>>)
FError(s) == Frame("error", s, 0, <<>>)
FInt(n) == Frame("int", <<>>, n, <<>>)
FBulk(s) == Frame("bulk", s, 0, <<>>)
FNilBulk == Frame("nilbulk", <<>>, 0, <<>>)
FNilArray == Frame("nilarray", <<>>, 0, <<>>)
FArray(e) == Frame("array", <<>>, 0, e)
FRaw(s) == Frame("raw", s, 0, <<>>)
\* Several frames written one after the other in answer to one request.
FSeq(e) == Frame("seq", <<>>, 0, e)
NoFrame == Frame("none", <<>>, 0, <<>>)

RECURSIVE SrvEncode(_), SrvEncodeAll(_)
SrvEncodeAll(fs) ==
    IF fs = <<>> THEN <<>> ELSE SrvEncode(Head(fs)) \o SrvEncodeAll(Tail(fs))

SrvEncode(f) ==
    CASE f.t = "simple" -> <<PLUS>> \o f.s \o CRLF
      [] f.t = "error" -> <<MINUS>> \o f.s \o CRLF
      [] f.t = "int" -> <<COLON>> \o FormatInt(f.n) \o CRLF
      [] f.t = "bulk" -> <<DOLLAR>> \o FormatInt(Len(f.s)) \o CRLF \o f.s \o CRLF
      [] f.t = "nilbulk" -> <<DOLLAR, MINUS, ZERO + 1>> \o CRLF
      [] f.t = "nilarray" -> <<STAR, MINUS, ZERO + 1>> \o CRLF
      [] f.t = "array" ->
             <<STAR>> \o FormatInt(Len(f.e)) \o CRLF \o SrvEncodeAll(f.e)
      [] f.t = "seq" -> SrvEncodeAll(f.e)
      [] OTHER -> f.s

\* Command names and fixed replies, as text.
GET == <<71, 69, 84>>
MULTI == <<77, 85, 76, 84, 73>>
EXEC == <<69, 88, 69, 67>>
WATCH == <<87, 65, 84, 67, 72>>
OK == <<79, 75>>
QUEUED == <<81, 85, 69, 85, 69, 68>>
KeyK == <<107>>
SUBSCRIBE == <<83, 85, 66, 83, 67, 82, 73, 66, 69>>
UNSUBSCRIBE == <<85, 78, 83, 85, 66, 83, 67, 82, 73, 66, 69>>
PSUBSCRIBE == <<80, 83, 85, 66, 83, 67, 82, 73, 66, 69>>
PUNSUBSCRIBE == <<80, 85, 78, 83, 85, 66, 83, 67, 82, 73, 66, 69>>
MESSAGE == <<109, 101, 115, 115, 97, 103, 101>>
ChA == <<97>>
ChB == <<98>>
\* The channel lists the pub/sub wrappers are called with: one name, two names.
ChannelSeqs == {<<ChA>>, <<ChA, ChB>>}

\* What the server may answer to an ordinary command when the decoder is
\* under study: every frame type, nil frames alone and inside arrays, an
\* Error frame inside an array, payloads holding CR or LF, and byte
\* sequences that are not frames.
DecodeReplies ==
    {FSimple(<<97>>), FSimple(<<97, CR>>),
     FError(<<98>>), FError(<<98, CR>>), FError(<<98, LF, 98>>),
     FInt(-7),
     FBulk(<<CR, LF>>), FBulk(<<8364 \div 4096 + 224, 130, 172>>),
     FNilBulk, FNilArray,
     FArray(<<>>),
     FArray(<<FNilBulk, FSimple(<<97>>)>>),
     FArray(<<FNilArray, FInt(7)>>),
     FArray(<<FError(<<98>>), FSimple(<<97>>)>>),
     FRaw(<<120, CR, LF>>), FRaw(<<CR, CR, LF>>), FRaw(CRLF),
     FRaw(<<DOLLAR, 120, CR, LF>>)}

\* The results a queued command may have when EXEC runs it.
QueuedResults == {FSimple(OK), FError(<<98>>), FInt(1)}

\* The frames of a server whose stream may end inside a frame.
EofReplies ==
    {FSimple(<<97>>), FInt(-7), FBulk(<<97, 98>>), FNilBulk,
     FArray(<<FBulk(<<97>>), FSimple(<<97>>)>>)}

OrdinaryReplies(prof) ==
    CASE prof = "decode" -> DecodeReplies
      [] prof = "eof" -> EofReplies
      [] prof = "txn" -> {FBulk(<<97>>)}
      [] OTHER -> {FSimple(OK)}

(***************************************************************************)
(* The connection: objects, transports, the server's side.                 *)
(***************************************************************************)
\* GoRedisClient.__init__, lines 27-29: an open socket whose descriptor is
\* also referenced by the reader self.file (makefile).
NewObj == [closed |-> FALSE, fd |-> TRUE, alive |-> TRUE]
NewNet == [out |-> <<>>, wire |-> <<>>, buf |-> <<>>, peerClosed |-> FALSE,
           nreq |-> 0, cut |-> [req |-> 0, got |-> <<>>]]
NewSrv == [multi |-> FALSE, watching |-> FALSE, dirty |-> FALSE,
           queue |-> <<>>, sent |-> <<>>, subs |-> {}, pushed |-> 0]

CallBudget == IF profile = "txn" THEN MaxTxnCalls ELSE MaxCalls

\* The outcome of a call without the stream position.
Outcome(r) == [st |-> r.st, v |-> r.v, exc |-> r.exc, pre |-> r.pre, txt |-> r.txt]

NotConnected ==
    Outcome(Raise("RuntimeError", "Client not connected. Call Connect() first.",
                  <<>>, <<>>))

\* A finished call: the operation, whether it went through the module-level
\* functions or the object, the object, whether the object had been closed,
\* whether the stream held no unread byte when the request was written, the
\* frame the server answered this request with (NoFrame if it had not
\* answered when the call ended), the outcome, the bytes of the stream left
\* unread, and the number of bytes written.
Result(op, via, c, closedAt, clean, reqno, frame, out, left, wrote) ==
    [op |-> op, via |-> via, c |-> c, closedAt |-> closedAt, clean |-> clean,
     reqno |-> reqno, frame |-> frame, out |-> out, left |-> left,
     wrote |-> wrote]

\* client.py get_client, lines 94-97, for a caller that fails.
FailNotConnected(op) ==
    /\ results' = Append(results,
           Result(op, "module", 0, FALSE, TRUE, 0, NoFrame, NotConnected, <<>>, 0))
    /\ UNCHANGED <<global_client, objs, held, net, srv, pc, cur, profile>>

\* sendall (line 44) raises: the call ends there, line 45 is not reached.
WriteFails(c, op, via, exc, txt) ==
    /\ results' = Append(results,
           Result(op, via, c, objs[c].closed,
                  net[c].wire = <<>> /\ net[c].buf = <<>>, net[c].nreq, NoFrame,
                  Outcome(Raise(exc, txt, <<>>, <<>>)),
                  net[c].buf \o net[c].wire, 0))
    /\ UNCHANGED <<global_client, objs, held, net, srv, pc, cur, profile>>

\* sendall (line 44) returns, and the call is inside _read_response.
WriteDone(c, op, via, req) ==
    /\ net' = [net EXCEPT ![c].out = @ \o req, ![c].nreq = @ + 1]
    /\ pc' = "await"
    /\ cur' = [op |-> op, via |-> via, c |-> c, closedAt |-> objs[c].closed,
               clean |-> net[c].wire = <<>> /\ net[c].buf = <<>>,
               reqno |-> net[c].nreq + 1, wrote |-> Len(req)]
    /\ UNCHANGED <<global_client, objs, held, srv, results, profile>>

\* A mutant of SendCommand: a write that fails is tried once more.
SendCommandRetry(c, op, via, args) ==
    IF ~objs[c].fd
    THEN WriteFails(c, op, via, "OSError", "Bad file descriptor")
    ELSE \/ WriteDone(c, op, via, Encode(args))
         \/ /\ net[c].peerClosed
            /\ WriteDone(c, op, via, Encode(args) \o Encode(args))

\* client.py send_command, lines 38-45, up to the blocking read: the request
\* is written with one sendall, which raises when the descriptor has been
\* released and may raise once the peer has closed the connection.
SendCommand(c, op, via, args) ==
    IF ~objs[c].fd
    THEN WriteFails(c, op, via, "OSError", "Bad file descriptor")
    ELSE \/ WriteDone(c, op, via, Encode(args))
         \/ /\ net[c].peerClosed
            /\ WriteFails(c, op, via, "BrokenPipeError", "Broken pipe")

\* A module-level wrapper: get_client().send_command(...).
Wrapper(op, args) ==
    /\ pc = "idle"
    /\ Len(results) < CallBudget
    /\ IF global_client = 0 THEN FailNotConnected(op)
       ELSE SendCommand(global_client, op, "module", args)
    /\ UNCHANGED codecVars

\* strings.py Get, line 5.
Get == Wrapper("Get", <<PyText(GET), PyText(KeyK)>>)
\* transactions.py Multi, Exec, Watch.
Multi == Wrapper("Multi", <<PyText(MULTI)>>)
Exec == Wrapper("Exec", <<PyText(EXEC)>>)
Watch == Wrapper("Watch", <<PyText(WATCH), PyText(KeyK)>>)

\* pubsub.py Subscribe, Unsubscribe, PSubscribe, PUnsubscribe:
\* send_command(NAME, *channels).
NameThen(name, chs) == <<PyText(name)>> \o [i \in 1..Len(chs) |-> PyText(chs[i])]
Subscribe(chs) == Wrapper("Subscribe", NameThen(SUBSCRIBE, chs))
Unsubscribe(chs) == Wrapper("Unsubscribe", NameThen(UNSUBSCRIBE, chs))
PSubscribe(chs) == Wrapper("PSubscribe", NameThen(PSUBSCRIBE, chs))
PUnsubscribe(chs) == Wrapper("PUnsubscribe", NameThen(PUNSUBSCRIBE, chs))

\* send_command called on an object the caller kept, not through get_client.
ObjSend(c) ==
    /\ pc = "idle"
    /\ Len(results) < CallBudget
    /\ c \in held
    /\ SendCommand(c, "send_command", "object", <<PyText(GET), PyText(KeyK)>>)
    /\ UNCHANGED codecVars

(***************************************************************************)
(* Two callers on the global client.  In the specification of concurrent   *)
(* use pc and cur hold one entry per caller, and a call advances one       *)
(* blocking read at a time.                                                *)
(***************************************************************************)
Callers == {1, 2}
KeyJ == <<106>>
\* Each caller asks for a key of its own.
KeyOf(t) == IF t = 1 THEN KeyK ELSE KeyJ

\* The callers' mutex, held from before the write until the call is over: a
\* caller may enter when no other caller is inside send_command.
MutexFree(t) == \A u \in Callers \ {t} : pc[u] = "idle"

\* client.py send_command, lines 38-44, by caller t: the request is written
\* in one sendall.
ThreadWrite(t) ==
    LET c == global_client
        req == Encode(<<PyText(GET), PyText(KeyOf(t))>>)
    IN /\ pc[t] = "idle"
       /\ net[c].nreq < MaxConcCalls
       /\ profile = "free" => net[c].nreq < MaxFreeCalls
       /\ net' = [net EXCEPT ![c].out = @ \o req, ![c].nreq = @ + 1]
       /\ pc' = [pc EXCEPT ![t] = "await"]
       /\ cur' = [cur EXCEPT ![t] =
                     [op |-> "Get",
                      via |-> IF profile = "mutex" THEN "mutex" ELSE "module",
                      c |-> c, closedAt |-> objs[c].closed,
                      clean |-> /\ net[c].wire = <<>> /\ net[c].buf = <<>>
                                /\ net[c].out = <<>>,
                      reqno |-> net[c].nreq + 1, wrote |-> Len(req),
                      mine |-> <<>>]]
       /\ UNCHANGED <<global_client, objs, held, srv, results, profile>>
       /\ UNCHANGED codecVars

\* A mutant of ThreadSend: the caller does not take the mutex.
ThreadSendNoMutex(t) == ThreadWrite(t)

\* A caller starts a call, under the mutex when the callers use one.
ThreadSend(t) == (profile = "mutex" => MutexFree(t)) /\ ThreadWrite(t)

\* One blocking read of caller t inside _read_response (lines 53, 67, 68),
\* and the end of the call when that was its last read.
ThreadRead(t) ==
    /\ pc[t] = "await"
    /\ LET c == cur[t].c
           w == Want(cur[t].mine, 1)
           rl == ReadLine(net[c].buf, FALSE)
           rn == ReadN(net[c].buf, FALSE, w.n)
           ok == IF w.k = "line" THEN rl.st = "ok" ELSE rn.st = "ok"
           got == IF w.k = "line" THEN rl.line ELSE rn.data
           rest == IF w.k = "line" THEN rl.rest ELSE rn.rest
           r == ReadResponse(cur[t].mine \o got, FALSE)
           answered == Len(srv[c].sent) >= cur[t].reqno
       IN /\ w.k # "none"
          /\ ok
          /\ net' = [net EXCEPT ![c].buf = rest]
          /\ IF r.st = "block"
             THEN /\ cur' = [cur EXCEPT ![t].mine = @ \o got]
                  /\ UNCHANGED <<pc, results>>
             ELSE /\ results' = Append(results,
                         Result(cur[t].op, cur[t].via, c, cur[t].closedAt,
                                cur[t].clean, cur[t].reqno,
                                IF answered THEN srv[c].sent[cur[t].reqno]
                                ELSE NoFrame,
                                Outcome(r), rest \o net[c].wire, cur[t].wrote))
                  /\ pc' = [pc EXCEPT ![t] = "idle"]
                  /\ cur' = [cur EXCEPT ![t] = <<>>]
    /\ UNCHANGED <<global_client, objs, held, srv, profile>>
    /\ UNCHANGED codecVars

\* The callers start to serialise their calls with a mutex, on a connection
\* no call has left a byte on.
AdoptMutex ==
    /\ profile = "free"
    /\ \A t \in Callers : pc[t] = "idle"
    /\ \A c \in DOMAIN net :
           net[c].out = <<>> /\ net[c].wire = <<>> /\ net[c].buf = <<>>
    /\ profile' = "mutex"
    /\ UNCHANGED <<global_client, objs, held, net, srv, pc, cur, results>>
    /\ UNCHANGED codecVars

\* send_command line 45: _read_response returns or raises once its blocking
\* reads can complete.
Recv ==
    /\ pc = "await"
    /\ LET c == cur.c
           eof == net[c].peerClosed /\ net[c].wire = <<>>
           r == ReadResponse(net[c].buf, eof)
           answered == Len(srv[c].sent) >= cur.reqno
       IN /\ r.st # "block"
          /\ net' = [net EXCEPT ![c].buf = r.rest]
          /\ results' = Append(results,
                 Result(cur.op, cur.via, c, cur.closedAt, cur.clean, cur.reqno,
                        IF answered THEN srv[c].sent[cur.reqno] ELSE NoFrame,
                        Outcome(r), r.rest \o net[c].wire, cur.wrote))
    /\ pc' = "idle"
    /\ cur' = <<>>
    /\ UNCHANGED <<global_client, objs, held, srv, profile>>
    /\ UNCHANGED codecVars

\* server.py Connect, lines 6-8.
Connect ==
    /\ pc = "idle"
    /\ Len(objs) < MaxClients
    /\ objs' = Append(objs, NewObj)
    /\ net' = Append(net, NewNet)
    /\ srv' = Append(srv, NewSrv)
    /\ global_client' = Len(objs) + 1
    /\ UNCHANGED <<held, pc, cur, results, profile>>
    /\ UNCHANGED codecVars

\* The errors of socket.connect (client.py line 28): the peer refuses, the
\* attempt times out, the name does not resolve.
ConnectErrors == {"ConnectionRefusedError", "TimeoutError", "gaierror"}

\* A mutant of ConnectFails: the global client is unset before the transport
\* is established.
ConnectFailsUnbinds(exc) ==
    /\ pc = "idle"
    /\ Len(results) < CallBudget
    /\ results' = Append(results,
           Result("Connect", "module", global_client, FALSE, TRUE, 0, NoFrame,
                  Outcome(Raise(exc, "", <<>>, <<>>)), <<>>, 0))
    /\ global_client' = 0
    /\ UNCHANGED <<objs, held, net, srv, pc, cur, profile>>
    /\ UNCHANGED codecVars

\* server.py Connect, line 6, when GoRedisClient.__init__ fails at
\* self.sock.connect (client.py line 28): the exception leaves __init__ and
\* Connect, line 7 of server.py is not reached, and the object under
\* construction, which nothing refers to, is dropped with its unconnected
\* socket.  The call is recorded with the global client it found.
ConnectFails(exc) ==
    /\ pc = "idle"
    /\ Len(results) < CallBudget
    /\ results' = Append(results,
           Result("Connect", "module", global_client, FALSE, TRUE, 0, NoFrame,
                  Outcome(Raise(exc, "", <<>>, <<>>)), <<>>, 0))
    /\ UNCHANGED <<global_client, objs, held, net, srv, pc, cur, profile>>
    /\ UNCHANGED codecVars

\* socket.close() under self.sock.close(), client.py line 78: the socket
\* object is marked closed; the descriptor is released only when no
\* makefile() reader refers to it, and self.file is never closed.
SockClose(o) == [o EXCEPT !.closed = TRUE]

\* server.py Close, lines 12-14.
Close ==
    /\ pc = "idle"
    /\ IF global_client = 0
       THEN /\ Len(results) < CallBudget
            /\ FailNotConnected("Close")
       ELSE /\ objs' = [objs EXCEPT ![global_client] = SockClose(@)]
            /\ global_client' = 0
            /\ UNCHANGED <<held, net, srv, pc, cur, results, profile>>
    /\ UNCHANGED codecVars

\* The caller keeps the object get_client() returns (client.py line 97).
Hold ==
    /\ pc = "idle"
    /\ global_client # 0
    /\ global_client \notin held
    /\ held' = held \cup {global_client}
    /\ UNCHANGED <<global_client, objs, net, srv, pc, cur, results, profile>>
    /\ UNCHANGED codecVars

\* An object nothing refers to any more is finalised at a time the runtime
\* chooses: its reader and its socket are closed, the descriptor released.
Collect(c) ==
    /\ c \in 1..Len(objs)
    /\ c # global_client
    /\ c \notin held
    /\ objs[c].alive
    /\ objs' = [objs EXCEPT ![c] = [closed |-> TRUE, fd |-> FALSE, alive |-> FALSE]]
    /\ UNCHANGED <<global_client, held, net, srv, pc, cur, results, profile>>
    /\ UNCHANGED codecVars

(***************************************************************************)
(* The environment: the transport and the server.                          *)
(***************************************************************************)
\* The transport hands the next k bytes of the response stream to the reader.
Deliver(c, k) ==
    /\ c \in 1..Len(net)
    /\ k \in 1..Len(net[c].wire)
    /\ net' = [net EXCEPT ![c].buf = @ \o TakeN(net[c].wire, k),
                          ![c].wire = DropN(@, k)]
    /\ UNCHANGED <<global_client, objs, held, srv, pc, cur, results, profile>>
    /\ UNCHANGED codecVars

\* The peer closes the stream; the reader sees the end after the bytes sent.
PeerClose(c) ==
    /\ c \in 1..Len(net)
    /\ ~net[c].peerClosed
    /\ net' = [net EXCEPT ![c].peerClosed = TRUE]
    /\ UNCHANGED <<global_client, objs, held, srv, pc, cur, results, profile>>
    /\ UNCHANGED codecVars

\* The peer stops while a call waits for its response: only the first k
\* bytes still on their way reach the reader, then the stream ends.  The
\* connection remembers the request that was waiting and the bytes of its
\* response that got through.
PeerCut(c, k) ==
    /\ pc = "await"
    /\ cur.c = c
    /\ ~net[c].peerClosed
    /\ k \in 0..(Len(net[c].wire) - 1)
    /\ net' = [net EXCEPT ![c].wire = TakeN(@, k),
                          ![c].peerClosed = TRUE,
                          ![c].cut = [req |-> cur.reqno,
                                      got |-> net[c].buf \o TakeN(net[c].wire, k)]]
    /\ UNCHANGED <<global_client, objs, held, srv, pc, cur, results, profile>>
    /\ UNCHANGED codecVars

\* The frames the server may answer the parsed request p with, in state s.
SrvReplies(s, p) ==
    LET name == IF p.ok /\ p.args # <<>> THEN p.args[1] ELSE <<>>
    IN CASE name = <<>> -> {FError(<<98>>)}
         [] name = MULTI -> IF s.multi THEN {FError(<<98>>)} ELSE {FSimple(OK)}
         [] name = EXEC ->
                IF ~s.multi THEN {FError(<<98>>)}
                ELSE IF s.dirty THEN {FNilArray}
                ELSE {FArray(s.queue)}
         [] name = WATCH -> IF s.multi THEN {FError(<<98>>)} ELSE {FSimple(OK)}
         [] OTHER -> IF s.multi THEN {FSimple(QUEUED)} ELSE OrdinaryReplies(profile)

\* The server's state after answering p with f; q is the result the command
\* will have if it was queued.
SrvAfter(s, p, f, q) ==
    LET name == IF p.ok /\ p.args # <<>> THEN p.args[1] ELSE <<>>
        t == [s EXCEPT !.sent = Append(@, f)]
    IN CASE name = MULTI -> [t EXCEPT !.multi = TRUE]
         [] name = EXEC ->
                [t EXCEPT !.multi = FALSE, !.queue = <<>>, !.watching = FALSE,
                          !.dirty = FALSE]
         [] name = WATCH -> [t EXCEPT !.watching = ~s.multi \/ s.watching]
         [] name # <<>> /\ name \notin {MULTI, EXEC, WATCH} /\ s.multi ->
                [t EXCEPT !.queue = Append(@, q)]
         [] OTHER -> t

\* The server reads one request and writes one response frame.
Respond(c) ==
    /\ c \in 1..Len(net)
    /\ net[c].out # <<>>
    /\ ~net[c].peerClosed
    /\ LET p == SrvParse(net[c].out)
       IN \E f \in SrvReplies(srv[c], p) :
          \E q \in IF f = FSimple(QUEUED) THEN QueuedResults ELSE {NoFrame} :
              /\ net' = [net EXCEPT ![c].out = <<>>,
                                    ![c].wire = @ \o SrvEncode(f)]
              /\ srv' = [srv EXCEPT ![c] = SrvAfter(@, p, f, q)]
    /\ UNCHANGED <<global_client, objs, held, pc, cur, results, profile>>
    /\ UNCHANGED codecVars

\* Text in lower case, as the server names the kind of a confirmation.
Lower(s) == [i \in 1..Len(s) |-> IF s[i] \in 65..90 THEN s[i] + 32 ELSE s[i]]

SubNames == {SUBSCRIBE, UNSUBSCRIBE, PSUBSCRIBE, PUNSUBSCRIBE}

\* The confirmation of one name: the kind, the name, and the number of
\* subscriptions the connection has after it.
Confirmation(name, ch, count) ==
    FArray(<<FBulk(Lower(name)), FBulk(ch), FInt(count)>>)

RECURSIVE Confirms(_, _, _, _)
\* One confirmation per name of the request, in order; subs is the set of
\* the connection's subscriptions, patterns apart from channels.
Confirms(name, chs, subs, acc) ==
    IF chs = <<>> THEN [frames |-> acc, subs |-> subs]
    ELSE LET x == <<name \in {PSUBSCRIBE, PUNSUBSCRIBE}, Head(chs)>>
             s == IF name \in {SUBSCRIBE, PSUBSCRIBE}
                  THEN subs \cup {x} ELSE subs \ {x}
         IN Confirms(name, Tail(chs), s,
                     Append(acc, Confirmation(name, Head(chs), Cardinality(s))))

\* A message published to a channel the connection is subscribed to.
PushFrame(ch) == FArray(<<FBulk(MESSAGE), FBulk(ch), FBulk(<<109>>)>>)

IsSubRequest(p) == p.ok /\ Len(p.args) >= 2 /\ p.args[1] \in SubNames

\* A pub/sub server reads one request and answers it: a subscription
\* request with one confirmation frame per name, any other with one frame.
PubRespond(c) ==
    /\ c \in 1..Len(net)
    /\ net[c].out # <<>>
    /\ ~net[c].peerClosed
    /\ LET p == SrvParse(net[c].out)
           cf == Confirms(p.args[1], Tail(p.args), srv[c].subs, <<>>)
       IN \E f \in IF IsSubRequest(p) THEN {FSeq(cf.frames)}
                   ELSE OrdinaryReplies(profile) :
              /\ net' = [net EXCEPT ![c].out = <<>>,
                                    ![c].wire = @ \o SrvEncode(f)]
              /\ srv' = [srv EXCEPT ![c].sent = Append(@, f),
                                    ![c].subs = IF IsSubRequest(p) THEN cf.subs
                                                ELSE @]
    /\ UNCHANGED <<global_client, objs, held, pc, cur, results, profile>>
    /\ UNCHANGED codecVars

\* The server pushes a message to a subscribed connection, at any time.
Push(c) ==
    /\ c \in 1..Len(net)
    /\ ~net[c].peerClosed
    /\ srv[c].pushed < MaxPush
    /\ \E x \in srv[c].subs :
           net' = [net EXCEPT ![c].wire = @ \o SrvEncode(PushFrame(x[2]))]
    /\ srv' = [srv EXCEPT ![c].pushed = @ + 1]
    /\ UNCHANGED <<global_client, objs, held, pc, cur, results, profile>>
    /\ UNCHANGED codecVars

\* What the server of the concurrent callers holds under each key.
ConcReply(args) ==
    IF Len(args) = 2 /\ args[2] = KeyK THEN FBulk(<<97>>)
    ELSE FArray(<<FInt(7), FSimple(<<98>>)>>)

\* The server reads the first of the requests written to it and answers it
\* with the frame of the key it names.
ConcRespond(c) ==
    /\ c \in 1..Len(net)
    /\ ~net[c].peerClosed
    /\ \E k \in 1..Len(net[c].out) :
           /\ SrvParse(TakeN(net[c].out, k)).ok
           /\ LET f == ConcReply(SrvParse(TakeN(net[c].out, k)).args)
              IN /\ net' = [net EXCEPT ![c].out = DropN(@, k),
                                       ![c].wire = @ \o SrvEncode(f)]
                 /\ srv' = [srv EXCEPT ![c].sent = Append(@, f)]
    /\ UNCHANGED <<global_client, objs, held, pc, cur, results, profile>>
    /\ UNCHANGED codecVars

\* Another client changes the watched key.
Touch(c) ==
    /\ c \in 1..Len(srv)
    /\ srv[c].watching
    /\ ~srv[c].dirty
    /\ srv' = [srv EXCEPT ![c].dirty = TRUE]
    /\ UNCHANGED <<global_client, objs, held, net, pc, cur, results, profile>>
    /\ UNCHANGED codecVars

(***************************************************************************)
(* Specifications.                                                         *)
(***************************************************************************)
Connected(prof) ==
    /\ global_client = 1
    /\ objs = <<NewObj>>
    /\ held = {}
    /\ net = <<NewNet>>
    /\ srv = <<NewSrv>>
    /\ pc = "idle"
    /\ cur = <<>>
    /\ results = <<>>
    /\ profile = prof

\* One open connection, ordinary commands, a server that may answer anything.
Init == Connected("decode") /\ CodecIdle

Next ==
    \/ Get
    \/ Recv
    \/ \E c \in DOMAIN net : Respond(c)
    \/ \E c \in DOMAIN net : \E k \in 1..Len(net[c].wire) : Deliver(c, k)
    \/ \E c \in DOMAIN net : PeerClose(c)

Spec == Init /\ [][Next]_vars

\* The transaction commands against a server that queues and executes.
InitTxn == Connected("txn") /\ CodecIdle

NextTxn ==
    \/ Watch
    \/ Multi
    \/ Get
    \/ Exec
    \/ Recv
    \/ \E c \in DOMAIN net : Respond(c)
    \/ \E c \in DOMAIN net : \E k \in 1..Len(net[c].wire) : Deliver(c, k)
    \/ \E c \in DOMAIN srv : Touch(c)

SpecTxn == InitTxn /\ [][NextTxn]_vars

\* The life of the global client: Connect, Close, and objects the caller
\* keeps.
InitLife ==
    /\ global_client = 0
    /\ objs = <<>>
    /\ held = {}
    /\ net = <<>>
    /\ srv = <<>>
    /\ pc = "idle"
    /\ cur = <<>>
    /\ results = <<>>
    /\ profile = "life"
    /\ CodecIdle

NextLife ==
    \/ Connect
    \/ Close
    \/ Hold
    \/ Get
    \/ Recv
    \/ \E c \in DOMAIN objs : ObjSend(c)
    \/ \E c \in DOMAIN objs : Collect(c)
    \/ \E c \in DOMAIN net : Respond(c)
    \/ \E c \in DOMAIN net : \E k \in 1..Len(net[c].wire) : Deliver(c, k)

SpecLife == InitLife /\ [][NextLife]_vars

\* Connecting to a server that may be out of reach, between commands.
InitConn ==
    /\ global_client = 0
    /\ objs = <<>>
    /\ held = {}
    /\ net = <<>>
    /\ srv = <<>>
    /\ pc = "idle"
    /\ cur = <<>>
    /\ results = <<>>
    /\ profile = "conn"
    /\ CodecIdle

NextConn ==
    \/ Connect
    \/ \E exc \in ConnectErrors : ConnectFails(exc)
    \/ Close
    \/ Get
    \/ Recv
    \/ \E c \in DOMAIN net : Respond(c)
    \/ \E c \in DOMAIN net : \E k \in 1..Len(net[c].wire) : Deliver(c, k)

SpecConn == InitConn /\ [][NextConn]_vars

\* One open connection whose peer may stop at any byte of a response.
InitEof == Connected("eof") /\ CodecIdle

NextEof ==
    \/ Get
    \/ Recv
    \/ \E c \in DOMAIN net : Respond(c)
    \/ \E c \in DOMAIN net : \E k \in 1..Len(net[c].wire) : Deliver(c, k)
    \/ \E c \in DOMAIN net : PeerClose(c)
    \/ \E c \in DOMAIN net : \E k \in 0..(Len(net[c].wire) - 1) : PeerCut(c, k)

SpecEof == InitEof /\ [][NextEof]_vars

\* One open connection to a pub/sub server; the transport hands over the
\* bytes on their way in one piece.
InitPub == Connected("pub") /\ CodecIdle

NextPub ==
    \/ \E chs \in ChannelSeqs : Subscribe(chs)
    \/ \E chs \in ChannelSeqs : Unsubscribe(chs)
    \/ \E chs \in ChannelSeqs : PSubscribe(chs)
    \/ \E chs \in ChannelSeqs : PUnsubscribe(chs)
    \/ Get
    \/ Recv
    \/ \E c \in DOMAIN net : PubRespond(c)
    \/ \E c \in DOMAIN net : Deliver(c, Len(net[c].wire))
    \/ \E c \in DOMAIN srv : Push(c)

SpecPub == InitPub /\ [][NextPub]_vars

\* Two callers share the global client, first with no lock, then with a
\* mutex.
InitConc ==
    /\ global_client = 1
    /\ objs = <<NewObj>>
    /\ held = {}
    /\ net = <<NewNet>>
    /\ srv = <<NewSrv>>
    /\ pc = [t \in Callers |-> "idle"]
    /\ cur = [t \in Callers |-> <<>>]
    /\ results = <<>>
    /\ profile = "free"
    /\ CodecIdle

NextConc ==
    \/ \E t \in Callers : ThreadSend(t)
    \/ \E t \in Callers : ThreadRead(t)
    \/ AdoptMutex
    \/ \E c \in DOMAIN net : ConcRespond(c)
    \/ \E c \in DOMAIN net : Deliver(c, Len(net[c].wire))

SpecConc == InitConc /\ [][NextConc]_vars

(***************************************************************************)
(* What a frame means to the caller, by the protocol: the value returned,  *)
(* or the server error raised.  An array holding an Error frame raises     *)
(* the first of them.                                                      *)
(***************************************************************************)
HasLineByte(s) == \E i \in 1..Len(s) : s[i] \in {CR, LF}

RECURSIVE StrictFrame(_)
\* A frame of RESP proper: the payload of a Simple String or Error frame
\* holds no CR and no LF.
StrictFrame(f) ==
    CASE f.t \in {"simple", "error"} -> ~HasLineByte(f.s)
      [] f.t \in {"int", "bulk", "nilbulk", "nilarray"} -> TRUE
      [] f.t = "array" -> \A i \in 1..Len(f.e) : StrictFrame(f.e[i])
      [] OTHER -> FALSE

ServerError(msg) == Outcome(Raise("Exception", "Server Error: ", msg, <<>>))
Returned(v) == Outcome(Ret(v, <<>>))

RECURSIVE Meaning(_), Meanings(_, _)
Meanings(fs, acc) ==
    IF fs = <<>> THEN Returned(PyList(acc))
    ELSE LET m == Meaning(Head(fs))
         IN IF m.st = "ret" THEN Meanings(Tail(fs), Append(acc, m.v)) ELSE m

Meaning(f) ==
    CASE f.t \in {"simple", "bulk"} -> Returned(PyText(Utf8Decode(f.s).s))
      [] f.t = "error" -> ServerError(Utf8Decode(f.s).s)
      [] f.t = "int" -> Returned(PyInt(f.n))
      [] f.t \in {"nilbulk", "nilarray"} -> Returned(PyNone)
      [] f.t = "array" -> Meanings(f.e, <<>>)
      [] OTHER -> NotConnected

\* sub occurs in s as a contiguous run.
Contains(s, sub) ==
    \E i \in 0..(Len(s) - Len(sub)) : SubSeq(s, i + 1, i + Len(sub)) = sub

\* The calls that finished before call i on the same object.
Earlier(i) == {j \in 1..(i - 1) : results[j].c = results[i].c}
\* The calls after call i on the same object, and the first of them.
Later(i) == {j \in (i + 1)..Len(results) : results[j].c = results[i].c}
NextCall(i) == {j \in Later(i) : \A k \in Later(i) : j <= k}

IsServerError(o) == o.st = "raise" /\ o.exc = "Exception" /\ o.pre = "Server Error: "
IsUnknownType(o) ==
    o.st = "raise" /\ o.exc = "Exception" /\ o.pre = "Unknown RESP type received: "
IsDecodeError(o) == IsUnknownType(o) \/ (o.st = "raise" /\ o.exc = "ValueError")

\* C1: when the server has answered every request on a connection with one
\* well-formed frame, each call returns the value of, or raises the server
\* error of, the frame that answered its own request.
Sequencing ==
    \A i \in 1..Len(results) :
        (/\ results[i].c # 0
         /\ results[i].frame # NoFrame
         /\ StrictFrame(results[i].frame)
         /\ \A j \in Earlier(i) :
                results[j].frame # NoFrame /\ StrictFrame(results[j].frame))
        => results[i].out = Meaning(results[i].frame)

\* C1 for responses that hold no Error frame inside an array.
NoInnerError(f) == f.t = "array" => \A k \in 1..Len(f.e) : f.e[k].t # "error"

SequencingNoInnerError ==
    \A i \in 1..Len(results) :
        (/\ results[i].c # 0
         /\ results[i].frame # NoFrame
         /\ StrictFrame(results[i].frame) /\ NoInnerError(results[i].frame)
         /\ \A j \in Earlier(i) :
                /\ results[j].frame # NoFrame
                /\ StrictFrame(results[j].frame) /\ NoInnerError(results[j].frame))
        => results[i].out = Meaning(results[i].frame)

\* C4: a call answered by an Error frame -<msg> raises a server error whose
\* text contains msg, the connection stays open, and the next call on it gets
\* the answer to its own request.
ErrorPropagation ==
    \A i \in 1..Len(results) :
        (results[i].clean /\ results[i].frame.t = "error")
        => /\ IsServerError(results[i].out)
           /\ Contains(results[i].out.txt, Utf8Decode(results[i].frame.s).s)
           /\ objs[results[i].c].fd
           /\ \A j \in NextCall(i) :
                  (results[j].frame # NoFrame /\ StrictFrame(results[j].frame))
                  => results[j].out = Meaning(results[j].frame)

\* C4 for the messages RESP allows, which hold no CR and no LF.
ErrorPropagationStrict ==
    \A i \in 1..Len(results) :
        (results[i].clean /\ results[i].frame.t = "error"
         /\ StrictFrame(results[i].frame))
        => /\ IsServerError(results[i].out)
           /\ results[i].out.txt = Utf8Decode(results[i].frame.s).s
           /\ objs[results[i].c].fd
           /\ results[i].left = <<>>

\* C5: a call answered by an array frame has read the whole frame when it
\* returns or raises a server error, also when an element is an Error frame.
ArrayConsumed ==
    \A i \in 1..Len(results) :
        (/\ results[i].clean
         /\ results[i].frame.t = "array"
         /\ StrictFrame(results[i].frame)
         /\ (results[i].out.st = "ret" \/ IsServerError(results[i].out)))
        => results[i].left = <<>>

\* C6: a call answered by $-1 or by *-1 returns None and has read exactly
\* the five bytes of that frame; a nil frame that is the first element of an
\* array gives None and the element after it is decoded as what it is.
NilDistinction ==
    \A i \in 1..Len(results) :
        LET f == results[i].frame
        IN results[i].clean
           => /\ f \in {FNilBulk, FNilArray}
                 => /\ results[i].out = Returned(PyNone)
                    /\ results[i].left = <<>>
                    /\ \A j \in NextCall(i) : results[j].clean
              /\ (f.t = "array" /\ Len(f.e) = 2 /\ f.e[1] \in {FNilBulk, FNilArray}
                  /\ StrictFrame(f.e[2]) /\ f.e[2].t # "error")
                 => /\ results[i].out.st = "ret"
                    /\ results[i].out.v = PyList(<<PyNone, Meaning(f.e[2]).v>>)
                    /\ results[i].left = <<>>

NilDistinctionWitness ==
    /\ Len(results) = 2
    /\ results[1].frame = FNilArray
    /\ results[1].out = Returned(PyNone)
    /\ results[2].frame = FArray(<<FNilBulk, FSimple(<<97>>)>>)
    /\ results[2].out = Returned(PyList(<<PyNone, PyText(<<97>>)>>))

Tags == {PLUS, MINUS, COLON, DOLLAR, STAR}

\* C9: a call answered by a line whose first byte is none of + - : $ * fails
\* with the unknown-type error naming that byte (naming none when the line is
\* empty) and returns no value.
MalformedTag ==
    \A i \in 1..Len(results) :
        LET f == results[i].frame
        IN (results[i].clean /\ f.t = "raw" /\ f.s[1] \notin Tags)
           => /\ IsUnknownType(results[i].out)
              /\ results[i].out.txt = IF f.s = CRLF THEN <<>> ELSE <<f.s[1]>>

\* C9 for lines that do not begin with CR or LF.
MalformedTagPlain ==
    \A i \in 1..Len(results) :
        LET f == results[i].frame
        IN (results[i].clean /\ f.t = "raw" /\ f.s[1] \notin Tags \cup {CR, LF})
           => /\ IsUnknownType(results[i].out)
              /\ results[i].out.txt = <<f.s[1]>>

\* C19: a call answered by a Simple String or Error frame returns, or raises
\* the server error of, exactly the bytes between the tag and the CR LF that
\* ends the frame, a trailing CR and a bare LF included, and leaves no byte
\* of the frame on the stream.
LineFraming ==
    \A i \in 1..Len(results) :
        (results[i].clean /\ results[i].frame.t \in {"simple", "error"})
        => /\ results[i].out = Meaning(results[i].frame)
           /\ results[i].left = <<>>

\* C19 for payloads that hold no CR and no LF.
LineFramingStrict ==
    \A i \in 1..Len(results) :
        (results[i].clean /\ results[i].frame.t \in {"simple", "error"}
         /\ StrictFrame(results[i].frame))
        => /\ results[i].out = Meaning(results[i].frame)
           /\ results[i].left = <<>>

\* C10: after a call failed with a decode error the connection is closed and
\* every later call on it fails.
DecodeErrorCloses ==
    \A i \in 1..Len(results) :
        IsDecodeError(results[i].out)
        => /\ objs[results[i].c].closed
           /\ \A j \in Later(i) : results[j].out.st = "raise"

\* C7: Exec returns the list of the results of the queued commands in the
\* order the server ran them, and None, which is not the empty list, when the
\* server aborted the transaction.
ExecResult ==
    \A i \in 1..Len(results) :
        LET f == results[i].frame
        IN (results[i].op = "Exec" /\ results[i].clean /\ f.t \in {"array", "nilarray"})
           => /\ results[i].out.st = "ret"
              /\ f.t = "nilarray" => results[i].out.v = PyNone
              /\ f.t = "array"
                 => /\ results[i].out.v.k = "list"
                    /\ Len(results[i].out.v.e) = Len(f.e)
                    /\ \A k \in 1..Len(f.e) :
                           f.e[k].t # "error"
                           => results[i].out.v.e[k] = Meaning(f.e[k]).v
                    /\ results[i].out.v # PyNone

\* C7 for transactions none of whose commands fails.
ExecResultNoError ==
    \A i \in 1..Len(results) :
        LET f == results[i].frame
        IN (results[i].op = "Exec" /\ results[i].clean /\ f.t \in {"array", "nilarray"}
            /\ \A k \in 1..Len(f.e) : f.e[k].t # "error")
           => results[i].out = Meaning(f)

\* C8: a call made when no client is connected, or on an object that has
\* been closed, fails with the not-connected error and writes nothing.
ClosedFails ==
    \A i \in 1..Len(results) :
        /\ results[i].c = 0
           => results[i].out = NotConnected /\ results[i].wrote = 0
        /\ results[i].closedAt
           => results[i].out.st = "raise" /\ results[i].wrote = 0

\* C8 for the module-level functions alone.
ClosedFailsModule ==
    \A i \in 1..Len(results) :
        (results[i].via = "module" /\ results[i].c = 0)
        => /\ results[i].out = NotConnected
           /\ results[i].wrote = 0

IsClosedError(o) == o.st = "raise" /\ o.exc = "EOFError"

\* The calls whose response the end of the stream cut short.
CutCalls ==
    {i \in 1..Len(results) :
        /\ results[i].c # 0
        /\ results[i].clean
        /\ results[i].frame # NoFrame
        /\ net[results[i].c].cut.req = results[i].reqno}

\* C11: a call whose response the end of the stream cut short, or whose
\* request was never answered before the stream ended, fails with the
\* connection-closed error and returns no value.
EndOfStream ==
    \A i \in 1..Len(results) :
        /\ i \in CutCalls => IsClosedError(results[i].out)
        /\ (results[i].c # 0 /\ results[i].clean /\ results[i].wrote > 0
            /\ results[i].frame = NoFrame)
           => IsClosedError(results[i].out)

\* The bytes of the elements of an array frame up to its k-th.
ArrayPrefix(f, k) ==
    <<STAR>> \o FormatInt(Len(f.e)) \o CRLF \o SrvEncodeAll(TakeN(f.e, k))

\* C11 where the stream ends before the tag line or between the elements of
\* an array: the call fails with the connection-closed error.
EndOfStreamAtBoundary ==
    \A i \in CutCalls :
        LET f == results[i].frame
            got == net[results[i].c].cut.got
        IN (got = <<>>
            \/ (f.t = "array" /\ \E k \in 0..(Len(f.e) - 1) : got = ArrayPrefix(f, k)))
           => IsClosedError(results[i].out)

\* The objects whose transport is open: the descriptor has not been released.
OpenTransports == {c \in DOMAIN objs : objs[c].fd}

\* No object waits for the runtime to finalise it: every object that is
\* alive is the global client or one the caller kept.
Settled == \A c \in DOMAIN objs : objs[c].alive => c = global_client \/ c \in held

\* C12: once the runtime has finalised the objects nothing refers to, at
\* most one transport is open, and one is open exactly when the global
\* client is set.
Lifecycle ==
    Settled
    => /\ Cardinality(OpenTransports) <= 1
       /\ (global_client # 0) <=> (OpenTransports # {})

\* C12 for the global client alone: while it is set, its transport is open
\* and its socket has not been closed.
LifecycleGlobalOpen ==
    global_client # 0
    => objs[global_client].fd /\ ~objs[global_client].closed

\* C12 for references the caller kept: a transport stays open after Close,
\* and after a second Connect, for as long as the caller holds the object.
LifecycleHeldOpen == \A c \in held : objs[c].fd

\* The call before call i on the same object.
PrevCall(i) == {j \in Earlier(i) : \A k \in Earlier(i) : k <= j}

\* C13: an ordinary command called when the last call on the connection was
\* a Subscribe or PSubscribe that returned is not written to the connection,
\* and a frame the server pushed is not returned as its result.
SubscriptionMode ==
    \A i \in 1..Len(results) :
        (/\ results[i].op = "Get"
         /\ results[i].c # 0
         /\ \E j \in PrevCall(i) :
                /\ results[j].op \in {"Subscribe", "PSubscribe"}
                /\ results[j].out.st = "ret")
        => /\ results[i].wrote = 0
           /\ \A ch \in {ChA, ChB} : results[i].out # Meaning(PushFrame(ch))

SubOps == {"Subscribe", "Unsubscribe", "PSubscribe", "PUnsubscribe"}

\* C20: when a subscription call answered by one confirmation per name has
\* returned, none of its confirmations is left unread, and the next call on
\* the connection does not get one of them as its result.
SubscribeConfirmations ==
    \A i \in 1..Len(results) :
        LET f == results[i].frame
        IN (/\ results[i].op \in SubOps
            /\ results[i].clean
            /\ f.t = "seq"
            /\ results[i].out.st = "ret")
           => \A k \in 1..Len(f.e) :
                  /\ ~Contains(results[i].left, SrvEncode(f.e[k]))
                  /\ \A j \in NextCall(i) : results[j].out # Meaning(f.e[k])

\* C20 for one name, when the server has pushed no message: the call returns
\* its confirmation and leaves none.
SubscribeConfirmationsSingle ==
    \A i \in 1..Len(results) :
        LET f == results[i].frame
        IN (/\ results[i].op \in SubOps
            /\ results[i].clean
            /\ f.t = "seq"
            /\ Len(f.e) = 1
            /\ srv[results[i].c].pushed = 0)
           => /\ results[i].out = Meaning(f.e[1])
              /\ ~Contains(results[i].left, SrvEncode(f.e[1]))

\* C14: a call made under the callers' mutex on a stream that held nothing
\* unread gets the response to its own request.
ConcurrentUse ==
    \A i \in 1..Len(results) :
        (results[i].via = "mutex" /\ results[i].clean)
        => /\ results[i].frame # NoFrame
           /\ results[i].out = Meaning(results[i].frame)

\* Call i got the response to the request of call j, not to its own.
GotOthers(i, j) ==
    /\ results[i].out = Meaning(results[j].frame)
    /\ results[i].out # Meaning(results[i].frame)

\* Two calls with no lock each got the response of the other; two later
\* calls under the mutex, answered differently, each got its own.
ConcurrentUseWitness ==
    /\ Len(results) = 4
    /\ results[1].via = "module" /\ results[2].via = "module"
    /\ results[1].frame # NoFrame /\ results[2].frame # NoFrame
    /\ GotOthers(1, 2) /\ GotOthers(2, 1)
    /\ results[3].via = "mutex" /\ results[4].via = "mutex"
    /\ results[3].clean /\ results[4].clean
    /\ results[3].frame # results[4].frame
    /\ results[3].out = Meaning(results[3].frame)
    /\ results[4].out = Meaning(results[4].frame)

\* With no lock a caller can get a part of the array that answers the other
\* caller: one is returned the first element of the other's array, and the
\* other a list that ends with the response of the first.
ConcurrentArraySplitWitness ==
    \E i, j \in 1..Len(results) :
        /\ results[i].via = "module" /\ results[j].via = "module"
        /\ results[j].frame = FArray(<<FInt(7), FSimple(<<98>>)>>)
        /\ results[i].frame = FBulk(<<97>>)
        /\ results[i].out = Returned(PyInt(7))
        /\ results[j].out = Returned(PyList(<<PyText(<<98>>), PyText(<<97>>)>>))

\* The bytes of the request of Get.
GetRequest == Encode(<<PyText(GET), PyText(KeyK)>>)

\* The calls that have written a request to connection c.
Writers(c) ==
    Cardinality({i \in 1..Len(results) : results[i].c = c /\ results[i].wrote > 0})
    + (IF pc = "await" /\ cur.c = c THEN 1 ELSE 0)

IsWriteError(o) == o.st = "raise" /\ o.exc \in {"OSError", "BrokenPipeError"}

\* Call i found the stream with nothing unread and with every earlier
\* request on its connection answered before the call that made it ended.
InStep(i) ==
    /\ results[i].clean
    /\ \A j \in Earlier(i) : results[j].wrote > 0 => results[j].frame # NoFrame

\* Each call has written its request once or not at all, and the failure of
\* the write, of the read, or of the decoding has reached the caller.
NoSilentRetryState ==
    /\ \A c \in DOMAIN net : net[c].nreq = Writers(c)
    /\ \A i \in 1..Len(results) :
           /\ results[i].wrote \in {0, Len(GetRequest)}
           /\ results[i].wrote = 0
              => IsWriteError(results[i].out) /\ results[i].frame = NoFrame
           /\ (results[i].wrote > 0 /\ InStep(i) /\ results[i].frame = NoFrame)
              => IsClosedError(results[i].out)
           /\ (InStep(i) /\ results[i].frame.t = "raw")
              => IsDecodeError(results[i].out)

\* A step writes at most one request, and only to start a call; the step in
\* which a write fails reads nothing; no step opens another connection.
NoSilentRetryStep ==
    /\ \A c \in DOMAIN net :
           /\ net'[c].nreq \in {net[c].nreq, net[c].nreq + 1}
           /\ net'[c].nreq # net[c].nreq
              => pc = "idle" /\ net'[c].out = net[c].out \o GetRequest
           /\ net'[c].nreq = net[c].nreq => Len(net'[c].out) <= Len(net[c].out)
    /\ (Len(results') > Len(results) /\ results'[Len(results')].wrote = 0)
       => net' = net
    /\ objs' = objs
    /\ global_client' = global_client

\* C15: send_command writes its request at most once, a failure of the
\* write, the read or the decoding is raised to the caller, nothing is
\* written a second time, no connection is opened, and no response is read
\* for a request whose write failed.
NoSilentRetry == []NoSilentRetryState /\ [][NoSilentRetryStep]_vars

\* A call whose read failed because the peer had closed the stream, then a
\* call whose write failed: one request was written in all.
NoSilentRetryWitness ==
    /\ Len(results) = 2
    /\ results[1].wrote > 0 /\ IsClosedError(results[1].out)
    /\ results[2].wrote = 0 /\ results[2].out.exc = "BrokenPipeError"
    /\ net[1].nreq = 1

\* A Connect that failed is the last call recorded.
ConnectFailed(rs) == rs # <<>> /\ rs[Len(rs)].op = "Connect"

\* Every Connect recorded failed with an error of the transport, raised to
\* the caller; a command that follows it on the connection it found, with
\* the stream in step, has the result of the frame that answered it.
FailedConnectState ==
    \A i \in 1..Len(results) :
        /\ results[i].op = "Connect"
           => /\ results[i].out.st = "raise"
              /\ results[i].out.exc \in ConnectErrors
              /\ results[i].wrote = 0
        /\ (i > 1 /\ results[i - 1].op = "Connect" /\ results[i].op = "Get"
            /\ results[i].c = results[i - 1].c)
           => IF results[i].c = 0 THEN results[i].out = NotConnected
              ELSE (InStep(i) /\ results[i].frame # NoFrame)
                   => results[i].out = Meaning(results[i].frame)

\* The step in which Connect fails leaves the global client, the objects,
\* the references to them and their streams as they were.
FailedConnectStep ==
    (Len(results') > Len(results) /\ ConnectFailed(results'))
    => /\ global_client' = global_client
       /\ results'[Len(results')].c = global_client
       /\ objs' = objs
       /\ held' = held
       /\ net' = net
       /\ srv' = srv

\* C21: when Connect fails to establish the transport, the error is raised
\* to the caller and the global client is exactly what it was: unset if
\* there was no connection, the previous connection, open and usable, if
\* there was one.
FailedConnect == []FailedConnectState /\ [][FailedConnectStep]_vars

\* With a connection open a Connect was refused, and the next command was
\* answered on the connection that was there.
FailedConnectWitness ==
    /\ Len(results) = 2
    /\ results[1].op = "Connect" /\ results[1].c = 1
    /\ results[1].out.exc = "ConnectionRefusedError"
    /\ results[2].op = "Get" /\ results[2].c = 1
    /\ results[2].out = Returned(PyText(OK))
    /\ global_client = 1 /\ objs[1].fd /\ ~objs[1].closed

\* With no connection a Connect failed, and the next command found none.
FailedConnectUnsetWitness ==
    /\ Len(results) = 2
    /\ results[1].op = "Connect" /\ results[1].c = 0
    /\ results[2].op = "Get" /\ results[2].out = NotConnected
    /\ global_client = 0

====
